---- MODULE Spec2Model ----
(***************************************************************************)
(* State-machine model of sammoo: the ParMOOSim optimization engine        *)
(* (src/Classes/parmoo_simulation.py) driving the ConfigSelection oracle   *)
(* (src/sammoo/config_selection.py and its older copy                      *)
(* src/Classes/config_selection.py).                                       *)
(*                                                                         *)
(* The PySAM modules and the parmoo MOOP are external libraries: PySAM is  *)
(* a deterministic table from the configured inputs to output fields, and  *)
(* the MOOP is a sample archive driven by a seeded pseudo-random           *)
(* generator.  Floating-point means are kept as exact fractions.           *)
(***************************************************************************)
EXTENDS Integers, Sequences, FiniteSets, TLC

\* ------------------------------------------------------------------ bounds
MaxSteps == 3          \* accepted optimize_step calls explored per reset
MaxExtraAcq == 1       \* add_acquisition calls explored per reset
MaxBudget == 4         \* largest sim_max handed to solve_all
MaxDebug == 1          \* set_debug_outputs calls explored
MaxArchive == 4        \* records of a synthetic archive
SearchBudget == 2      \* search_budget given to the constructor
BatchSize == 2         \* batch_size given to the constructor

\* ------------------------------------------------------- program constants
InitialAcquisitions == 3
Seed == 0

\* ------------------------------------------------------------------ values
\* A simulator value: a number, NaN, or a vector (time series) w.
Num(n) == [k |-> "num", v |-> n, w |-> <<>>]
NaN == [k |-> "nan", v |-> 0, w |-> <<>>]
Vec(s) == [k |-> "vec", v |-> 0, w |-> s]

\* An exact fraction n/d with d > 0, or NaN (d = 0).
Abs(i) == IF i < 0 THEN -i ELSE i

RECURSIVE GCD(_, _)
GCD(a, b) == IF b = 0 THEN a ELSE GCD(b, a % b)

Reduced(n, d, g) == [n |-> n \div g, d |-> d \div g]
Rat(n, d) == Reduced(n, d, GCD(Abs(n), d))
RatNaN == [n |-> 0, d |-> 0]
IsNaN(r) == r.d = 0

RECURSIVE SumSeq(_)
SumSeq(s) == IF s = <<>> THEN 0 ELSE Head(s) + SumSeq(Tail(s))

RECURSIVE NaNs(_)
NaNs(n) == IF n = 0 THEN <<>> ELSE <<NaN>> \o NaNs(n - 1)

\* --------------------------------------------------------- ConfigSelection
\* The design variables handed to ConfigSelection and ParMOOSim.
DesVarDict == << [name |-> "tshours", lb |-> 0, ub |-> 2, des_type |-> "integer"] >>

\* self.variable_to_group: the design variables that have a routing entry.
variable_to_group ==
    {"specified_solar_multiple", "I_bn_des", "T_loop_out", "tshours", "h_tank_in",
     "Row_Distance"}

\* self.output_name_map.get(key, key), for either copy of the class.
output_name_map(impl, key) ==
    CASE key = "LCOE" -> "lcoe_real"
      [] key = "-NPV" -> "npv"
      [] key = "Payback" -> "payback"
      [] key = "-Capacity Factor" -> "capacity_factor"
      [] key = "-Savings" -> "savings_year1"
      [] key = "CF" -> "capacity_factor"
      [] key = "-LCS" /\ impl = "sammoo" -> "cf_discounted_savings"
      [] OTHER -> key

\* self.modules of the "Commercial owner" preset, in list order.
modules == <<"system_model", "utility_model", "thermalrate_model", "financial_model">>

\* The match on the preset name: the module list it builds; no case matches another
\* name, and self.modules is then never assigned.
ModulesOf(preset) ==
    CASE preset = "LCOH Calculator" -> <<"system_model", "finance_model">>
      [] preset = "Commercial owner" -> modules
      [] OTHER -> <<>>

\* The attributes of each module's Outputs group: "value", "callable" or "absent".
OutputKind(m, f) ==
    CASE f = "export" -> "callable"
      [] m = "system_model" /\ f \in {"annual_energy", "capacity_factor"} -> "value"
      [] m = "utility_model" /\ f \in {"savings_year1"} -> "value"
      [] m = "financial_model"
           /\ f \in {"lcoe_real", "npv", "payback", "cf_discounted_savings"} -> "value"
      [] m = "finance_model" /\ f \in {"lcoe_fcr"} -> "value"
      [] OTHER -> "absent"

\* What the modules compute from the configured inputs (the external simulator).
OutputValue(f, t) ==
    CASE f = "lcoe_real" -> Num(20 + 2 * t)
      [] f = "npv" -> Num(3 * t - 2)
      [] f = "payback" -> Num(6 - t)
      [] f = "capacity_factor" -> Num(30 + t)
      [] f = "annual_energy" -> Num(100 * t)
      [] f = "savings_year1" -> Num(4 * t)
      [] f = "cf_discounted_savings" -> Vec(<<t, 2 * t + 1>>)
      [] f = "lcoe_fcr" -> Num(15 + t)
      [] OTHER -> NaN

\* The tshours value at which the simulated failure strikes.
FailAt == 1

\* The default of the constructor's switch_after parameter.
SwitchAfter == 5

VARIABLES
    impl,               \* which copy of ConfigSelection built the oracle: "sammoo" | "Classes"
    simFail,            \* the step of an evaluation that raises at FailAt: "none" | "set" | "exec" | "extract"
    config,             \* the ConfigSelection instance: its fields, and the steps (log)
                        \* of its last evaluation
    objective_names,    \* ParMOOSim.objective_names
    auto_switch,        \* ParMOOSim.auto_switch
    epsilon,            \* ParMOOSim.epsilon
    my_moop,            \* ParMOOSim.my_moop
    num_steps,          \* ParMOOSim.num_steps
    switched_to_batch,  \* ParMOOSim.switched_to_batch
    prev_objectives,    \* ParMOOSim.prev_objectives
    lastOp,             \* the operation called last
    lastResult,         \* how it ended: "ok" | "rejected" | "raised" | "TypeError"
    lastSim,            \* the last oracle call: design point, raised?, returned vector
    calls,              \* observers: calls made since construction or the last reset
    moop0,              \* the MOOP as it was right after construction
    ref,                \* archive and front of the solve_all run on the constructed engine
    inFlight            \* sim_func calls that have not returned yet (callers outside
                        \* the engine), and the instances they run on

vars == <<impl, simFail, config, objective_names, auto_switch, epsilon, my_moop, num_steps,
          switched_to_batch, prev_objectives, lastOp, lastResult, lastSim, calls, moop0, ref,
          inFlight>>

\* ---------------------------------------------------------------- sim_func
\* A design point is a sequence of <<name, value>> pairs (a dict in insertion order).
Point(t) == << <<"tshours", t>> >>

\* A design point with a variable that has no routing entry, ahead of a mapped one.
UnmappedPoint(t) == << <<"n_sca_per_loop", 8>>, <<"tshours", t>> >>

\* A setattr loop that fails the evaluation on a name without a routing entry.
RECURSIVE ApplyVars_Strict(_, _, _)
ApplyVars_Strict(inputs, x, log) ==
    IF x = <<>> THEN [raised |-> FALSE, inputs |-> inputs, log |-> log]
    ELSE IF Head(x)[1] \in variable_to_group
         THEN IF simFail = "set" /\ Head(x)[2] = FailAt
              THEN [raised |-> TRUE, inputs |-> inputs,
                    log |-> Append(log, <<"set", Head(x)[1]>>)]
              ELSE ApplyVars_Strict([inputs EXCEPT ![Head(x)[1]] = Head(x)[2]], Tail(x),
                                    Append(log, <<"set", Head(x)[1]>>))
         ELSE [raised |-> TRUE, inputs |-> inputs, log |-> log]

\* Lines 237-242: write every mapped variable to its group; an unmapped one is skipped
\* with a warning.  log collects the steps made.
RECURSIVE ApplyVars(_, _, _)
ApplyVars(inputs, x, log) ==
    IF x = <<>> THEN [raised |-> FALSE, inputs |-> inputs, log |-> log]
    ELSE LET var_name == Head(x)[1]
             value == Head(x)[2]
         IN IF var_name \in variable_to_group
            THEN IF simFail = "set" /\ value = FailAt
                 THEN [raised |-> TRUE, inputs |-> inputs,
                       log |-> Append(log, <<"set", var_name>>)]
                 ELSE ApplyVars([inputs EXCEPT ![var_name] = value], Tail(x),
                                Append(log, <<"set", var_name>>))
            ELSE ApplyVars(inputs, Tail(x), Append(log, <<"skip", var_name>>))

\* Lines 244-245: m.execute(1) for every module; it raises on the failing input.
ExecuteRaises(inputs) == simFail = "exec" /\ inputs["tshours"] = FailAt

\* hasattr(outputs_group, internal_key) raises when the getter itself fails.
ExtractRaises(ran) == simFail = "extract" /\ ran = FailAt

\* Lines 195-208: the first module whose Outputs holds a non-callable internal_key.
RECURSIVE FindModule(_, _)
FindModule(ms, internal_key) ==
    IF ms = <<>> THEN "none"
    ELSE IF OutputKind(Head(ms), internal_key) = "value" THEN Head(ms)
    ELSE FindModule(Tail(ms), internal_key)

\* Lines 203-206: the value appended for key (the -LCS case takes the last element).
Appended(key, value) ==
    IF impl = "sammoo" /\ key = "-LCS" /\ value.k = "vec"
    THEN Num(value.w[Len(value.w)])
    ELSE value

\* Lines 190-213: _collect_outputs over the keys; a key not found appends nothing.
RECURSIVE _collect_outputs(_, _, _)
_collect_outputs(ms, keys, ran) ==
    IF keys = <<>> THEN <<>>
    ELSE (IF FindModule(ms, output_name_map(impl, Head(keys))) = "none"
          THEN <<>>
          ELSE <<Appended(Head(keys), OutputValue(output_name_map(impl, Head(keys)), ran))>>)
         \o _collect_outputs(ms, Tail(keys), ran)

\* Line 251 (sammoo) or the missing handler (Classes): the outcome of a failed step.
Failed(cfg) ==
    IF impl = "sammoo"
    THEN [cfg |-> cfg, raised |-> FALSE, vec |-> NaNs(Len(cfg.selected_outputs))]
    ELSE [cfg |-> cfg, raised |-> TRUE, vec |-> <<>>]

\* A loop that executes the modules from the last one to the first.
Executed_Reversed(ms) == [i \in 1..Len(ms) |-> <<"execute", ms[Len(ms) + 1 - i]>>]

\* Lines 244-245: for m in self.modules: m.execute(1), in list order.
Executed(ms) == [i \in 1..Len(ms) |-> <<"execute", ms[i]>>]

\* Line 248: the outputs are read after the loop.
Collected == << <<"collect", "outputs">> >>

\* Lines 244-251 on the configuration c the variables were written to, when
\* writing them raised or not: execute the modules, then collect the outputs.
\* A failing execution stops at the first module; an instance that was never given
\* a module list fails at the loop header.
ExecuteAndCollect(c, setRaised) ==
    IF setRaised \/ c.modules = <<>> THEN Failed(c)
    ELSE IF ExecuteRaises(c.inputs)
         THEN Failed([c EXCEPT !.log = Append(@, <<"execute", Head(c.modules)>>)])
    ELSE IF ExtractRaises(c.inputs["tshours"])
         THEN Failed([c EXCEPT !.ran = c.inputs["tshours"],
                               !.log = @ \o Executed(c.modules) \o Collected])
    ELSE [cfg |-> [c EXCEPT !.ran = c.inputs["tshours"],
                            !.log = @ \o Executed(c.modules) \o Collected],
          raised |-> FALSE,
          vec |-> _collect_outputs(c.modules, c.selected_outputs, c.inputs["tshours"])]

Written(cfg, a) ==
    ExecuteAndCollect([cfg EXCEPT !.inputs = a.inputs, !.log = a.log], a.raised)

\* ConfigSelection.sim_func(x): apply the variables, execute the modules, collect.
sim_func(cfg, x) == Written(cfg, ApplyVars(cfg.inputs, x, <<>>))

\* -------------------------------------------------------------------- MOOP
\* MOOP(GlobalSurrogate_PS, hyperparams={'np_random_gen': 0}): an empty problem.
NewMOOP ==
    [designs |-> <<>>, sim_m |-> 0, search_budget |-> 0, objectives |-> <<>>,
     acqs |-> 0, archive |-> <<>>, rng |-> Seed, iter |-> 0]

\* An addDesign loop that registers every upper bound one too high.
RECURSIVE addDesigns_OpenUpper(_, _)
addDesigns_OpenUpper(moop, dvs) ==
    IF dvs = <<>> THEN moop
    ELSE addDesigns_OpenUpper(
             [moop EXCEPT !.designs = Append(@, [Head(dvs) EXCEPT !.ub = @ + 1])],
             Tail(dvs))

\* The addDesign loop over desVarDict.items(): name, lb, ub and des_type as given.
RECURSIVE addDesigns(_, _)
addDesigns(moop, dvs) ==
    IF dvs = <<>> THEN moop
    ELSE addDesigns([moop EXCEPT !.designs = Append(@, Head(dvs))], Tail(dvs))

\* addSimulation with m = len(objective_names) and the search budget.
addSimulation(moop, names, budget) ==
    [moop EXCEPT !.sim_m = Len(names), !.search_budget = budget]

\* _add_objectives: objective idx reads entry idx of the simulation output.
RECURSIVE _add_objectives(_, _)
_add_objectives(moop, names) ==
    IF names = <<>> THEN moop
    ELSE _add_objectives(
             [moop EXCEPT !.objectives =
                 Append(@, [name |-> Head(names), index |-> Len(@) + 1])],
             Tail(names))

\* initial_acquisitions(n) and add_acquisition: n more acquisitions.
addAcquisitions(moop, n) == [moop EXCEPT !.acqs = @ + n]

\* The registrations of __init__, in its order.
RegisterProblem(names) ==
    _add_objectives(addSimulation(addDesigns(NewMOOP, DesVarDict), names, SearchBudget), names)

\* The seeded generator: its next state, and the candidate value it gives a variable.
NextRng(r) == (5 * r + 3) % 8
Draw(r, d) == d.lb + (r % (d.ub - d.lb + 1))

\* One candidate design point: a value inside the bounds for every design variable.
Candidate(moop, r) ==
    [j \in 1..Len(moop.designs) |-> <<moop.designs[j].name, Draw(r, moop.designs[j])>>]

\* The candidates of one iteration: the search budget first, then one per acquisition.
BatchSizeOf(moop) == IF moop.iter = 0 THEN moop.search_budget ELSE moop.acqs

\* Evaluate n candidates through the oracle, appending one record per evaluation;
\* an oracle that raises, or a vector that is not of length m, ends the iteration.
RECURSIVE EvalBatch(_, _, _, _)
Evaluated(moop, n, x, res) ==
    IF res.raised \/ Len(res.vec) # moop.sim_m
    THEN [moop |-> moop, cfg |-> res.cfg, raised |-> TRUE,
          last |-> [x |-> x, raised |-> res.raised, vec |-> res.vec]]
    ELSE EvalBatch([moop EXCEPT !.archive = Append(@, [x |-> x, out |-> res.vec])],
                   res.cfg, n - 1, [x |-> x, raised |-> FALSE, vec |-> res.vec])

Drawn(moop, cfg, n, x) == Evaluated(moop, n, x, sim_func(cfg, x))

EvalBatch(moop, cfg, n, last) ==
    IF n = 0 THEN [moop |-> moop, cfg |-> cfg, raised |-> FALSE, last |-> last]
    ELSE Drawn([moop EXCEPT !.rng = NextRng(@)], cfg, n,
               Candidate(moop, NextRng(moop.rng)))

\* my_moop.optimize(): one iteration of the optimizer.
EndIteration(r) == IF r.raised THEN r ELSE [r EXCEPT !.moop.iter = @ + 1]

optimize(moop, cfg, last) == EndIteration(EvalBatch(moop, cfg, BatchSizeOf(moop), last))

\* my_moop.solve(sim_max): iterate until the evaluations reach sim_max.
RECURSIVE solve(_, _, _, _)
Iterated(r, sim_max) == IF r.raised THEN r ELSE solve(r.moop, r.cfg, sim_max, r.last)

solve(moop, cfg, sim_max, last) ==
    IF Len(moop.archive) >= sim_max \/ BatchSizeOf(moop) = 0
    THEN [moop |-> moop, cfg |-> cfg, raised |-> FALSE, last |-> last]
    ELSE Iterated(optimize(moop, cfg, last), sim_max)

\* Objective functions that all read the entry of the last objective (closures made
\* in the loop without make_obj_func).
obj_func_LateBound(rec, index) == rec.out[Len(rec.out)]

\* obj_func(x, s) of objective index: s["SAMOptim"][index].
obj_func(rec, index) == rec.out[index]

\* Comparisons of two objective values; every comparison with NaN is false.
LessEq(a, b) == a.k = "num" /\ b.k = "num" /\ a.v <= b.v
Less(a, b) == a.k = "num" /\ b.k = "num" /\ a.v < b.v

\* p dominates q: no worse on every objective, strictly better on one (minimization).
Dominates(p, q, m) ==
    /\ \A i \in 1..m : LessEq(obj_func(p, i), obj_func(q, i))
    /\ \E i \in 1..m : Less(obj_func(p, i), obj_func(q, i))

\* my_moop.getPF(): the records of the archive that no record dominates.
RECURSIVE Keep(_, _, _)
Keep(arch, i, m) ==
    IF i > Len(arch) THEN <<>>
    ELSE (IF \E j \in 1..Len(arch) : Dominates(arch[j], arch[i], m)
          THEN <<>> ELSE <<arch[i]>>) \o Keep(arch, i + 1, m)

getPF(moop) == Keep(moop.archive, 1, moop.sim_m)

\* ----------------------------------------------------------- optimize_step
\* The mean of one column of numbers, NaN entries skipped (pandas DataFrame.mean).
RECURSIVE ColNums(_)
ColNums(col) ==
    IF col = <<>> THEN <<>>
    ELSE (IF Head(col).k = "num" THEN <<Head(col).v>> ELSE <<>>) \o ColNums(Tail(col))

MeanOf(nums) == IF nums = <<>> THEN RatNaN ELSE Rat(SumSeq(nums), Len(nums))
ColMean(col) == MeanOf(ColNums(col))

RatAdd(a, b) ==
    IF IsNaN(a) \/ IsNaN(b) THEN RatNaN ELSE Rat(a.n * b.d + b.n * a.d, a.d * b.d)

RECURSIVE RatSum(_)
RatSum(rs) == IF rs = <<>> THEN Rat(0, 1) ELSE RatAdd(Head(rs), RatSum(Tail(rs)))

\* results.mean().values.mean(): the mean, over every column of the front's table
\* (design variables and objectives), of the column means.
ColumnMeans(pf, nd, m) ==
    [c \in 1..(nd + m) |->
        IF c <= nd
        THEN ColMean([i \in 1..Len(pf) |-> Num(pf[i].x[c][2])])
        ELSE ColMean([i \in 1..Len(pf) |-> pf[i].out[c - nd]])]

Over(total, ncols) ==
    IF ncols = 0 \/ IsNaN(total) THEN RatNaN ELSE Rat(total.n, total.d * ncols)

MeanOfMeans(cols) == Over(RatSum(cols), Len(cols))

MeanObj(pf, moop) == MeanOfMeans(ColumnMeans(pf, Len(moop.designs), moop.sim_m))

\* The comparison written delta <= self.epsilon.
DeltaBelow_NonStrict(a, b, eps) ==
    /\ ~IsNaN(a) /\ ~IsNaN(b)
    /\ Abs(a.n * b.d - b.n * a.d) * eps.d <= eps.n * a.d * b.d

\* delta < self.epsilon, with delta = abs(prev[-1] - prev[-2]); false on NaN.
DeltaBelow(a, b, eps) ==
    /\ ~IsNaN(a) /\ ~IsNaN(b)
    /\ Abs(a.n * b.d - b.n * a.d) * eps.d < eps.n * a.d * b.d

\* Lines 125-130: the condition under which the step switches to batch.
ShouldSwitch(prev) ==
    /\ Len(prev) >= 2
    /\ auto_switch
    /\ ~switched_to_batch
    /\ DeltaBelow(prev[Len(prev)], prev[Len(prev) - 1], epsilon)

\* optimize_step without its batch-mode guard.
InBatchMode_Never == FALSE

\* Line 107: the guard that rejects a step in batch mode.
InBatchMode == switched_to_batch

\* ------------------------------------------------------------------- Init
\* The objective lists handed to ConfigSelection ("-CF" has no translation entry and
\* names no output field).
SelectedOutputsChoices ==
    { <<"LCOE">>, <<"LCOE", "-NPV">>, <<"-CF", "LCOE">>, <<"-LCS", "Payback">> }

FailureChoices == {"none", "set", "exec", "extract"}

EpsilonChoices == { Rat(0, 1), Rat(1, 2) }

NoSim == [x |-> <<>>, raised |-> FALSE, vec |-> <<>>]

\* The engine calls sim_func synchronously: between two of its operations no
\* evaluation is in flight.
NoFlight == [mode |-> "engine", inst |-> <<>>, th |-> <<>>]
NoRef == [set |-> FALSE, budget |-> 0, sel |-> <<>>, archive |-> <<>>, pf |-> <<>>]
NoCalls ==
    [accepted |-> 0, opt |-> 0, added |-> 0, debug |-> 0,
     fresh |-> "constructed", ranFrom |-> "none", budget |-> 0, fired |-> FALSE,
     arg |-> <<>>]

\* The preset names handed to ConfigSelection.
KnownPresets == {"LCOH Calculator", "Commercial owner"}
PresetChoices == KnownPresets \cup {"Residential owner"}

\* ConfigSelection.__init__ raises when no case of the match binds file_names and the
\* template loop then reads it: always in src/sammoo (line 109), only without
\* use_default in src/Classes (lines 81-82).
SetupRaises(i, preset, use_default) ==
    preset \notin KnownPresets /\ (i = "sammoo" \/ ~use_default)

\* The elements of a list.
Range(s) == { s[i] : i \in 1..Len(s) }

\* The input names handed to set_input, and the modules whose value(key, value)
\* accepts each of them (any other module raises on it).
InputKeys ==
    {"analysis_period", "inflation_rate", "timestep_load_abs", "q_pb_design", "no_such_input"}

AcceptsInput(m, key) ==
    CASE m = "system_model" -> key \in {"timestep_load_abs", "q_pb_design"}
      [] m = "utility_model" -> key \in {"analysis_period", "inflation_rate"}
      [] m = "thermalrate_model" -> key \in {"analysis_period"}
      [] m = "financial_model" -> key \in {"analysis_period", "inflation_rate"}
      [] OTHER -> FALSE

ModuleNames == Range(modules) \cup {"finance_model"}

\* ConfigSelection.__init__: the instance it builds (constructed is false when it
\* raised and no instance exists).  assigned[m][key] is the value last given to
\* module m through value(key, value) after the templates were loaded, printed the
\* messages of the last set_input / set_inputs call.
ConfigSelection(i, preset, sel, use_default) ==
    [selected_outputs |-> sel,
     inputs |-> [v \in variable_to_group |-> 0],
     assigned |-> [m \in ModuleNames |-> [key \in InputKeys |-> Rat(0, 1)]],
     printed |-> <<>>,
     ran |-> -1,
     log |-> <<>>,
     preset |-> preset,
     use_default |-> use_default,
     modules |-> ModulesOf(preset),
     constructed |-> ~SetupRaises(i, preset, use_default)]

\* ParMOOSim.__init__ on a ConfigSelection built for selected_outputs sel; without a
\* ConfigSelection instance no engine is built.
Construct(sels, fails, presets, defaults) ==
    /\ impl \in {"sammoo", "Classes"}
    /\ simFail \in fails
    /\ \E sel \in sels, preset \in presets, use_default \in defaults :
          /\ config = ConfigSelection(impl, preset, sel, use_default)
          /\ objective_names = sel
          /\ my_moop = IF config.constructed
                       THEN addAcquisitions(RegisterProblem(sel), InitialAcquisitions)
                       ELSE NewMOOP
          /\ moop0 = my_moop
          /\ lastOp = IF config.constructed THEN "__init__" ELSE "ConfigSelection"
          /\ lastResult = IF config.constructed THEN "ok" ELSE "raised"
    /\ auto_switch \in BOOLEAN
    /\ epsilon \in EpsilonChoices
    /\ num_steps = 0
    /\ switched_to_batch = FALSE
    /\ prev_objectives = <<>>
    /\ lastSim = NoSim
    /\ calls = NoCalls
    /\ ref = NoRef

Init ==
    /\ Construct(SelectedOutputsChoices, FailureChoices, {"Commercial owner"}, {TRUE})
    /\ inFlight = NoFlight

Fixed == <<impl, simFail, objective_names, auto_switch, epsilon, moop0>>

\* ---------------------------------------------------------------- actions
\* A step that leaves the counter as it was.
StepCount_Skipped(n) == n

\* ParMOOSim.optimize_step(): rejected in batch mode; otherwise one optimizer
\* iteration, the mean of the front appended to the history, and the auto-switch,
\* whose solve_all(plot_output=...) call lacks the required sim_max argument.
\* Line 111: self.num_steps += 1.
StepCount(n) == n + 1

\* A switch that undoes the flag and the acquisitions when its solve_all call raises.
Recorded_RollsBack(r, prev, fire) ==
    /\ prev_objectives' = prev
    /\ switched_to_batch' = switched_to_batch
    /\ my_moop' = r.moop
    /\ lastResult' = IF fire THEN "TypeError" ELSE "ok"
    /\ calls' = [calls EXCEPT !.accepted = @ + 1, !.opt = @ + 1, !.fresh = "used",
                              !.fired = fire, !.ranFrom = "none", !.budget = 0]

\* Lines 122-135 with the history prev: the switch adds batch_size acquisitions, and
\* its solve_all call raises TypeError before anything runs.
Recorded(r, prev, fire) ==
    /\ prev_objectives' = prev
    /\ switched_to_batch' = (switched_to_batch \/ fire)
    /\ my_moop' = IF fire THEN addAcquisitions(r.moop, BatchSize) ELSE r.moop
    /\ lastResult' = IF fire THEN "TypeError" ELSE "ok"
    /\ calls' = [calls EXCEPT !.accepted = @ + 1, !.opt = @ + 1, !.fresh = "used",
                              !.fired = fire, !.ranFrom = "none", !.budget = 0]

History(r, prev) == Recorded(r, prev, ShouldSwitch(prev))

\* Lines 113-135 on the outcome r of my_moop.optimize().
Stepped(r) ==
    /\ config' = r.cfg
    /\ lastSim' = r.last
    /\ IF r.raised
       THEN /\ my_moop' = r.moop
            /\ lastResult' = "raised"
            /\ calls' = [calls EXCEPT !.accepted = @ + 1, !.opt = @ + 1, !.fresh = "used",
                                      !.fired = FALSE, !.ranFrom = "none", !.budget = 0]
            /\ UNCHANGED <<prev_objectives, switched_to_batch>>
       ELSE History(r, Append(prev_objectives, MeanObj(getPF(r.moop), r.moop)))

optimize_step ==
    /\ lastOp' = "optimize_step"
    /\ UNCHANGED <<Fixed, inFlight, ref>>
    /\ IF InBatchMode
       THEN /\ lastResult' = "rejected"
            /\ calls' = [calls EXCEPT !.fired = FALSE, !.ranFrom = "none", !.budget = 0]
            /\ UNCHANGED <<config, my_moop, num_steps, switched_to_batch, prev_objectives,
                           lastSim>>
       ELSE /\ num_steps < MaxSteps
            /\ num_steps' = StepCount(num_steps)
            /\ Stepped(optimize(my_moop, config, lastSim))

\* Lines 143-146 on the outcome r of my_moop.solve(sim_max); the first run on the
\* constructed engine is kept as the reference run.
Solved(r, sim_max) ==
    /\ my_moop' = r.moop
    /\ config' = r.cfg
    /\ lastSim' = r.last
    /\ lastResult' = IF r.raised THEN "raised" ELSE "ok"
    /\ calls' = [calls EXCEPT !.fresh = "used", !.fired = FALSE,
                              !.ranFrom = calls.fresh, !.budget = sim_max]
    /\ ref' = IF calls.fresh = "constructed"
              THEN [set |-> TRUE, budget |-> sim_max, sel |-> config.selected_outputs,
                    archive |-> r.moop.archive, pf |-> getPF(r.moop)]
              ELSE ref

\* A solve_all that marks the engine as being in batch mode.
solve_all_EntersBatch(sim_max) ==
    /\ lastOp' = "solve_all"
    /\ Solved(solve(my_moop, config, sim_max, lastSim), sim_max)
    /\ switched_to_batch' = TRUE
    /\ UNCHANGED <<Fixed, inFlight, num_steps, prev_objectives>>

\* ParMOOSim.solve_all(sim_max): my_moop.solve(sim_max=sim_max).
solve_all(sim_max) ==
    /\ lastOp' = "solve_all"
    /\ Solved(solve(my_moop, config, sim_max, lastSim), sim_max)
    /\ UNCHANGED <<Fixed, inFlight, num_steps, switched_to_batch, prev_objectives>>

\* ParMOOSim.add_acquisition(): one more acquisition.
add_acquisition ==
    /\ calls.added < MaxExtraAcq
    /\ lastOp' = "add_acquisition"
    /\ lastResult' = "ok"
    /\ my_moop' = addAcquisitions(my_moop, 1)
    /\ calls' = [calls EXCEPT !.added = @ + 1, !.fresh = "used", !.fired = FALSE,
                              !.ranFrom = "none", !.budget = 0]
    /\ UNCHANGED <<Fixed, inFlight, config, num_steps, switched_to_batch, prev_objectives,
                   lastSim, ref>>

\* ParMOOSim.get_results(): the Pareto front; no state is written.
get_results ==
    /\ lastOp' = "get_results"
    /\ lastResult' = "ok"
    /\ calls' = [calls EXCEPT !.fired = FALSE, !.ranFrom = "none", !.budget = 0]
    /\ UNCHANGED <<Fixed, inFlight, config, my_moop, num_steps, switched_to_batch, prev_objectives,
                   lastSim, ref>>

\* ParMOOSim.export_results(): get_results() written to a file; no state is written.
export_results ==
    /\ lastOp' = "export_results"
    /\ lastResult' = "ok"
    /\ calls' = [calls EXCEPT !.fired = FALSE, !.ranFrom = "none", !.budget = 0]
    /\ UNCHANGED <<Fixed, inFlight, config, my_moop, num_steps, switched_to_batch, prev_objectives,
                   lastSim, ref>>

\* A reset that re-registers the problem but not the initial acquisitions.
ResetMOOP_NoAcquisitions ==
    _add_objectives(
        addSimulation(addDesigns(NewMOOP, DesVarDict), objective_names, SearchBudget),
        objective_names)

\* A reset that re-registers everything but carries the old generator over.
ResetMOOP_KeepsRng ==
    [addAcquisitions(
         _add_objectives(
             addSimulation(addDesigns(NewMOOP, DesVarDict), objective_names, SearchBudget),
             objective_names),
         InitialAcquisitions)
     EXCEPT !.rng = my_moop.rng]

\* A reset that re-registers the simulation and the objectives from the oracle's
\* current selected_outputs.
ResetMOOP_FromConfig ==
    addAcquisitions(
        _add_objectives(
            addSimulation(addDesigns(NewMOOP, DesVarDict), config.selected_outputs,
                          SearchBudget),
            config.selected_outputs),
        InitialAcquisitions)

\* The MOOP that reset() builds: lines 235-257 and 265.
ResetMOOP == addAcquisitions(
                 _add_objectives(
                     addSimulation(addDesigns(NewMOOP, DesVarDict), objective_names,
                                   SearchBudget),
                     objective_names),
                 InitialAcquisitions)

\* ParMOOSim.reset().
reset ==
    /\ lastOp' = "reset"
    /\ lastResult' = "ok"
    /\ my_moop' = ResetMOOP
    /\ num_steps' = 0
    /\ prev_objectives' = <<>>
    /\ switched_to_batch' = FALSE
    /\ calls' = [NoCalls EXCEPT !.debug = calls.debug, !.fresh = "reset"]
    /\ lastSim' = NoSim
    /\ UNCHANGED <<Fixed, inFlight, config, ref>>

\* A direct call of config.sim_func(x), outside the optimizer.
DirectPoints ==
    { Point(t) : t \in DesVarDict[1].lb .. DesVarDict[1].ub }
        \cup { UnmappedPoint(t) : t \in DesVarDict[1].lb .. DesVarDict[1].ub }

Returned(x, res) ==
    /\ config' = res.cfg
    /\ lastSim' = [x |-> x, raised |-> res.raised, vec |-> res.vec]
    /\ lastResult' = IF res.raised THEN "raised" ELSE "ok"

direct_sim_func(x) ==
    /\ config.constructed
    /\ lastOp' = "sim_func"
    /\ Returned(x, sim_func(config, x))
    /\ calls' = [calls EXCEPT !.fired = FALSE, !.ranFrom = "none", !.budget = 0]
    /\ UNCHANGED <<Fixed, inFlight, my_moop, num_steps, switched_to_batch, prev_objectives, ref>>

\* list(set(selected_outputs + additional_outputs)): the union, in the order the
\* set happens to iterate.
Orders(S) ==
    { o \in [1..Cardinality(S) -> S] : \A i, j \in 1..Cardinality(S) : o[i] = o[j] => i = j }

DebugOutputs == { <<"Payback">> }

set_debug_outputs(additional_outputs) ==
    /\ impl = "sammoo"
    /\ calls.debug < MaxDebug
    /\ lastOp' = "set_debug_outputs"
    /\ lastResult' = "ok"
    /\ \E all_outputs \in Orders(Range(config.selected_outputs \o additional_outputs)) :
          config' = [config EXCEPT !.selected_outputs = all_outputs]
    /\ calls' = [calls EXCEPT !.debug = @ + 1, !.fired = FALSE, !.ranFrom = "none",
                              !.budget = 0]
    /\ UNCHANGED <<Fixed, inFlight, my_moop, num_steps, switched_to_batch, prev_objectives, lastSim,
                   ref>>

\* --------------------------------------------------------------- set_input
\* A loop without the break: the value is given to every module that accepts the key.
RECURSIVE TryModules_NoBreak(_, _, _, _, _)
TryModules_NoBreak(cfg, ms, key, value, found) ==
    IF ms = <<>>
    THEN (IF found THEN cfg ELSE [cfg EXCEPT !.printed = Append(@, <<"WARN", key>>)])
    ELSE IF AcceptsInput(Head(ms), key)
         THEN TryModules_NoBreak([cfg EXCEPT !.assigned[Head(ms)][key] = value],
                                 Tail(ms), key, value, TRUE)
         ELSE TryModules_NoBreak([cfg EXCEPT !.printed = Append(@, <<"DEBUG", Head(ms)>>)],
                                 Tail(ms), key, value, found)

\* Lines 166-178: module.value(key, value) on the modules in list order; the first
\* one that accepts it ends the loop, a module that raises prints a DEBUG line, and
\* when none accepts a WARN line is printed.
RECURSIVE TryModules(_, _, _, _, _)
TryModules(cfg, ms, key, value, found) ==
    IF ms = <<>>
    THEN (IF found THEN cfg ELSE [cfg EXCEPT !.printed = Append(@, <<"WARN", key>>)])
    ELSE IF AcceptsInput(Head(ms), key)
         THEN [cfg EXCEPT !.assigned[Head(ms)][key] = value]
         ELSE TryModules([cfg EXCEPT !.printed = Append(@, <<"DEBUG", Head(ms)>>)],
                         Tail(ms), key, value, found)

SetInput(cfg, key, value) == TryModules(cfg, cfg.modules, key, value, FALSE)

\* Lines 180-188: set_input for every item of the dict, in its order.
RECURSIVE SetInputs(_, _)
SetInputs(cfg, inputs_dict) ==
    IF inputs_dict = <<>> THEN cfg
    ELSE SetInputs(SetInput(cfg, Head(inputs_dict)[1], Head(inputs_dict)[2]),
                   Tail(inputs_dict))

InputValues == { Rat(1, 1), Rat(2, 1) }

\* The dicts handed to set_inputs: two different keys, in insertion order.
InputDicts ==
    { d \in { << <<k1, Rat(1, 1)>>, <<k2, Rat(2, 1)>> >> : k1 \in InputKeys, k2 \in InputKeys } :
          d[1][1] # d[2][1] }

\* What the operations on the oracle's inputs leave alone.
EngineState == <<Fixed, inFlight, my_moop, num_steps, switched_to_batch, prev_objectives,
                 lastSim, ref>>

\* ConfigSelection.set_input(key, value): returns None, raises nothing.
set_input(key, value) ==
    /\ config.constructed
    /\ lastOp' = "set_input"
    /\ lastResult' = "ok"
    /\ config' = SetInput([config EXCEPT !.printed = <<>>], key, value)
    /\ calls' = [calls EXCEPT !.arg = << <<key, value>> >>]
    /\ UNCHANGED EngineState

\* ConfigSelection.set_inputs(inputs_dict).
set_inputs(inputs_dict) ==
    /\ config.constructed
    /\ lastOp' = "set_inputs"
    /\ lastResult' = "ok"
    /\ config' = SetInputs([config EXCEPT !.printed = <<>>], inputs_dict)
    /\ calls' = [calls EXCEPT !.arg = inputs_dict]
    /\ UNCHANGED EngineState

\* ------------------------------------------------- ThermalLoadProfileLPG
\* The years a profile is built for.
Years == {2019, 2020, 2100}

\* The number of entries get_hourly_kw_profile requires.
HoursExpected == 8760

\* _generate_hourly_series: one entry per hour from January 1st 00:00 to December
\* 31st 23:00 of the year; its length.
IsLeapYear(year) == year % 4 = 0 /\ (year % 100 # 0 \/ year % 400 = 0)
HourlySeriesLength(year) == 24 * (IF IsLeapYear(year) THEN 366 ELSE 365)

\* The LPG mass of the year, in kg (the sum of monthly_kg; every month has active
\* hours).
MonthlyKgTotals == {1000, 2000}

\* get_average_power_mw: kg * 46000 * 0.89 / 3600 / 8760 / 1000 with the default
\* heating value and efficiency, as a fraction in lowest terms of the constants.
get_average_power_mw(kg) == Rat(kg * 2047, 1576800000)

\* A get_hourly_kw_profile without the length check.
get_hourly_kw_profile_Unchecked(year) ==
    [raised |-> FALSE, profile |-> Rat(HourlySeriesLength(year), 1)]

\* get_hourly_kw_profile: ValueError unless the series has 8760 entries; the list it
\* returns is represented by its length.
get_hourly_kw_profile(year) ==
    [raised |-> HourlySeriesLength(year) # HoursExpected,
     profile |-> Rat(HourlySeriesLength(year), 1)]

\* Lines 96-100 on the outcome p of get_hourly_kw_profile.
Applied(p, kg) ==
    IF p.raised
    THEN /\ lastResult' = "ValueError"
         /\ config' = config
    ELSE /\ lastResult' = "ok"
         /\ config' = SetInput(SetInput([config EXCEPT !.printed = <<>>],
                                        "timestep_load_abs", p.profile),
                               "q_pb_design", get_average_power_mw(kg))

\* ThermalLoadProfileLPG(monthly_kg, year=year).apply_to_config(config).
apply_to_config(year, kg) ==
    /\ config.constructed
    /\ lastOp' = "apply_to_config"
    /\ Applied(get_hourly_kw_profile(year), kg)
    /\ calls' = [calls EXCEPT !.arg = << <<"year", Rat(year, 1)>>, <<"kg", Rat(kg, 1)>> >>]
    /\ UNCHANGED EngineState

\* ------------------------------------------------------ concurrent callers
\* Callers of sim_func outside the engine.  Each runs the three parts of sim_func one
\* after the other; the parts of different callers interleave freely, except that a
\* "sequential" caller starts only when no other evaluation is in flight.
Threads == {1, 2}

Idle == [pc |-> "idle", x |-> <<>>, vec |-> <<>>]

\* The instance caller i evaluates on: its own one, or the one every caller shares.
InstanceOf(mode, i) == IF mode = "own" THEN i ELSE 1

\* What the operations of the callers leave alone: the engine and its own oracle.
Engine == <<Fixed, config, my_moop, num_steps, switched_to_batch, prev_objectives, lastOp,
            lastResult, lastSim, calls, ref>>

\* Line 235: caller i enters sim_func(x); with an instance per evaluation it does so
\* on a newly built instance.
call_sim_func(i, x) ==
    /\ inFlight.mode # "engine"
    /\ inFlight.th[i].pc = "idle"
    /\ inFlight.mode = "sequential" => \A j \in Threads : inFlight.th[j].pc = "idle"
    /\ inFlight' = [inFlight EXCEPT
                       !.th[i] = [pc |-> "called", x |-> x, vec |-> <<>>],
                       !.inst[i] = IF inFlight.mode = "own" THEN config ELSE @]
    /\ UNCHANGED Engine

\* Lines 237-242 of caller i: the variables of its point are written to the groups
\* of the instance.
set_variables(i) ==
    /\ inFlight.mode # "engine"
    /\ inFlight.th[i].pc = "called"
    /\ inFlight' = [inFlight EXCEPT
                       !.inst[InstanceOf(inFlight.mode, i)].inputs =
                           ApplyVars(@, inFlight.th[i].x, <<>>).inputs,
                       !.th[i].pc = "set"]
    /\ UNCHANGED Engine

\* A sim_func that collects without executing the modules.
ModulesExecuted_Skipped(c) == c

\* Lines 244-245: the modules compute their outputs from the inputs the instance
\* holds at that moment.
ModulesExecuted(c) == [c EXCEPT !.ran = c.inputs["tshours"]]

execute_modules(i) ==
    /\ inFlight.mode # "engine"
    /\ inFlight.th[i].pc = "set"
    /\ inFlight' = [inFlight EXCEPT
                       !.inst[InstanceOf(inFlight.mode, i)] = ModulesExecuted(@),
                       !.th[i].pc = "ran"]
    /\ UNCHANGED Engine

\* Line 248: caller i returns what the outputs of the instance hold.
OutputsOf(c) == _collect_outputs(c.modules, c.selected_outputs, c.ran)

collect_outputs(i) ==
    /\ inFlight.mode # "engine"
    /\ inFlight.th[i].pc = "ran"
    /\ inFlight' = [inFlight EXCEPT
                       !.th[i].vec = OutputsOf(inFlight.inst[InstanceOf(inFlight.mode, i)]),
                       !.th[i].pc = "idle"]
    /\ UNCHANGED Engine

\* The engine: the operations of ParMOOSim.
Next ==
    \/ optimize_step
    \/ \E sim_max \in {1, MaxBudget} : solve_all(sim_max)
    \/ add_acquisition
    \/ get_results
    \/ export_results
    \/ reset

Spec == Init /\ [][Next]_vars

\* The oracle: direct and optimizer-issued evaluations.
NextOracle ==
    \/ \E x \in DirectPoints : direct_sim_func(x)
    \/ \E additional_outputs \in DebugOutputs : set_debug_outputs(additional_outputs)
    \/ optimize_step
    \/ get_results

SpecOracle == Init /\ [][NextOracle]_vars

\* ------------------------------------------------------------------ claims
\* The tshours value of a design point, and whether the simulated failure strikes it.
TsHours(x) == x[CHOOSE i \in 1..Len(x) : x[i][1] = "tshours"][2]
Struck(x) == simFail # "none" /\ TsHours(x) = FailAt

\* |a - b| < eps on exact fractions, NaN excluded.
StrictlyBelow(a, b, eps) ==
    /\ a.d > 0 /\ b.d > 0
    /\ Abs(a.n * b.d - b.n * a.d) * eps.d < eps.n * a.d * b.d

\* The names that carry the leading negation marker.
Negated(name) == name \in {"-NPV", "-LCS", "-CF", "-Capacity Factor", "-Savings"}

\* C1: once switched_to_batch is true, every optimize_step call is a rejected no-op
\* (no optimizer call, no oracle call, num_steps, prev_objectives, acquisitions and
\* archive unchanged), and every operation other than reset() leaves the mode batch.
C1_OneWayLatch ==
    [][switched_to_batch =>
        /\ (lastOp' # "reset" => switched_to_batch')
        /\ (lastOp' = "optimize_step" =>
               /\ lastResult' = "rejected"
               /\ calls'.opt = calls.opt
               /\ UNCHANGED <<num_steps, prev_objectives, my_moop, config, lastSim>>)]_vars

C1_Witness ==
    switched_to_batch /\ lastOp = "optimize_step" /\ lastResult = "rejected"

\* C2: the engine starts sequential; a step switches to batch only if auto_switch is
\* on, at least two means are recorded and the last two differ by strictly less than
\* epsilon, and an accepted step that recorded such a mean does switch; so epsilon 0
\* never switches and auto_switch off never switches.
C2_ConvergenceTrigger ==
    /\ ~switched_to_batch
    /\ [][/\ ((~switched_to_batch /\ switched_to_batch') =>
               (/\ lastOp' = "optimize_step"
                /\ auto_switch
                /\ Len(prev_objectives') >= 2
                /\ StrictlyBelow(prev_objectives'[Len(prev_objectives')],
                                 prev_objectives'[Len(prev_objectives') - 1], epsilon)))
           /\ ((/\ lastOp' = "optimize_step"
                /\ ~switched_to_batch
                /\ auto_switch
                /\ Len(prev_objectives') = Len(prev_objectives) + 1
                /\ Len(prev_objectives') >= 2
                /\ StrictlyBelow(prev_objectives'[Len(prev_objectives')],
                                 prev_objectives'[Len(prev_objectives') - 1], epsilon))
               => switched_to_batch')
           /\ ((~auto_switch \/ epsilon.n = 0) => ~switched_to_batch')]_vars

\* Means [10.0, 10.0] with epsilon 0.5: switched in the second step.
C2_Witness ==
    /\ prev_objectives = <<Rat(10, 1), Rat(10, 1)>>
    /\ epsilon = Rat(1, 2)
    /\ auto_switch
    /\ num_steps = 2
    /\ switched_to_batch

\* C3: when the switch fires inside optimize_step, batch_size acquisitions are added,
\* a full batch solve runs to completion in the same call, and the call returns
\* normally in batch mode.
C3_SwitchSolvesBatch ==
    (lastOp = "optimize_step" /\ calls.fired) =>
        /\ switched_to_batch
        /\ lastResult = "ok"

\* C4: every vector sim_func returns has as many entries as objectives were
\* registered (m), whether the evaluation succeeded, a step raised, or a requested
\* output was not found.
C4_FixedArity ==
    (lastSim.x # <<>> /\ ~lastSim.raised) => Len(lastSim.vec) = my_moop.sim_m

\* C5: sim_func never propagates an exception; when a step of the evaluation raises
\* it returns a vector whose every entry is NaN.
C5_FailureContained ==
    lastSim.x # <<>> =>
        /\ ~lastSim.raised
        /\ (Struck(lastSim.x) => \A i \in 1..Len(lastSim.vec) : lastSim.vec[i] = NaN)

\* The value extracted for a requested name at tshours t: the field the name
\* translates to, NaN (undefined) when no module supplies it.
ExtractedFor(name, t) ==
    IF FindModule(config.modules, output_name_map(impl, name)) = "none" THEN NaN
    ELSE Appended(name, OutputValue(output_name_map(impl, name), t))

\* C6: entry i of every returned vector is the value extracted for the i-th
\* registered objective name.
C6_PositionalAlignment ==
    (lastSim.x # <<>> /\ ~lastSim.raised /\ ~Struck(lastSim.x)) =>
        \A i \in 1..Len(objective_names) :
            /\ i <= Len(lastSim.vec)
            /\ lastSim.vec[i] = ExtractedFor(objective_names[i], TsHours(lastSim.x))

\* C7: for a name with the leading negation marker the objective value that reaches
\* the dominance comparison is the negated output field the name translates to.
C7_SignFlip ==
    \A k \in 1..Len(my_moop.archive) : \A i \in 1..Len(objective_names) :
        LET rec == my_moop.archive[k]
            field == OutputValue(output_name_map(impl, objective_names[i]), TsHours(rec.x))
        IN (Negated(objective_names[i]) /\ rec.out[i].k = "num" /\ field.k = "num")
              => obj_func(rec, i) = Num(0 - field.v)

\* C8: reset() gives the state right after construction (num_steps 0, empty history,
\* sequential, empty archive, the constructed MOOP with its 3 acquisitions), and a
\* second reset() changes nothing.
C8_ResetRestores ==
    [][lastOp' = "reset" =>
        /\ num_steps' = 0
        /\ prev_objectives' = <<>>
        /\ ~switched_to_batch'
        /\ my_moop'.archive = <<>>
        /\ my_moop'.acqs = 3
        /\ my_moop' = moop0
        /\ (lastOp = "reset" =>
              UNCHANGED <<my_moop, num_steps, prev_objectives, switched_to_batch, config,
                          objective_names>>)]_vars

C8_Witness ==
    /\ lastOp = "reset"
    /\ config.ran # -1
    /\ my_moop = moop0

\* C9: solve_all(budget) after reset() leaves the archive and the Pareto front that
\* the same solve_all(budget) left on the freshly constructed engine.
C9_Reproducible ==
    (/\ lastOp = "solve_all"
     /\ calls.ranFrom = "reset"
     /\ ref.set
     /\ ref.budget = calls.budget
     /\ ref.sel = config.selected_outputs)
    => /\ my_moop.archive = ref.archive
       /\ getPF(my_moop) = ref.pf

C9_Witness ==
    /\ lastOp = "solve_all"
    /\ calls.ranFrom = "reset"
    /\ ref.set
    /\ ref.budget = calls.budget
    /\ Len(my_moop.archive) > SearchBudget
    /\ my_moop.archive = ref.archive

\* C10: after k accepted optimize_step calls since construction or the last reset,
\* num_steps = k and the optimizer ran k iterations.
C10_StepCounter ==
    /\ num_steps = calls.accepted
    /\ calls.opt = calls.accepted

C10_Witness ==
    /\ lastOp = "optimize_step"
    /\ lastResult # "rejected"
    /\ num_steps = 2
    /\ calls.accepted = 2

\* C11: num_steps, switched_to_batch and prev_objectives are written only by
\* optimize_step and reset: solve_all, add_acquisition, get_results and export_results
\* leave all three unchanged in either mode, and an optimize_step that follows a
\* solve_all made in sequential mode is accepted.
C11_ModeStateFrame ==
    [][/\ (lastOp' \notin {"optimize_step", "reset"} =>
              UNCHANGED <<num_steps, switched_to_batch, prev_objectives>>)
       /\ ((lastOp = "solve_all" /\ ~switched_to_batch /\ lastOp' = "optimize_step") =>
              (lastResult' # "rejected" /\ num_steps' = num_steps + 1))]_vars

C11_Witness ==
    /\ lastOp = "solve_all"
    /\ ~switched_to_batch
    /\ num_steps = 1
    /\ Len(prev_objectives) = 1
    /\ Len(my_moop.archive) > SearchBudget

\* s is an initial segment of t.
IsPrefix(s, t) == Len(s) <= Len(t) /\ SubSeq(t, 1, Len(s)) = s

\* C12: between resets the archive only grows at its end: no operation other than
\* reset removes or changes a record, the operations that evaluate nothing leave it
\* unchanged, and every evaluation the engine issues is the record appended last.
C12_AppendOnlyArchive ==
    [][/\ (lastOp' # "reset" => IsPrefix(my_moop.archive, my_moop'.archive))
       /\ (lastOp' \in {"get_results", "export_results", "add_acquisition",
                         "set_debug_outputs", "sim_func"} =>
              my_moop'.archive = my_moop.archive)
       /\ ((lastOp' \in {"optimize_step", "solve_all"} /\ lastSim' # lastSim) =>
              /\ Len(my_moop'.archive) > Len(my_moop.archive)
              /\ my_moop'.archive[Len(my_moop'.archive)] =
                     [x |-> lastSim'.x, out |-> lastSim'.vec])]_vars

\* A design point that names a variable without a routing entry.
HasUnmapped(x) == \E i \in 1..Len(x) : x[i][1] \notin variable_to_group

\* C13: a direct evaluation of a point with an unmapped variable name, when no step
\* fails, skips that name, writes every mapped variable, executes every module and
\* returns the collected outputs, neither an exception nor the NaN vector.
C13_UnmappedSkipped ==
    (lastOp = "sim_func" /\ HasUnmapped(lastSim.x) /\ ~Struck(lastSim.x)) =>
        /\ ~lastSim.raised
        /\ \A i \in 1..Len(lastSim.x) :
              IF lastSim.x[i][1] \in variable_to_group
              THEN /\ <<"set", lastSim.x[i][1]>> \in Range(config.log)
                   /\ config.inputs[lastSim.x[i][1]] = lastSim.x[i][2]
              ELSE <<"skip", lastSim.x[i][1]>> \in Range(config.log)
        /\ \A j \in 1..Len(config.modules) :
              <<"execute", config.modules[j]>> \in Range(config.log)
        /\ lastSim.vec = _collect_outputs(config.modules, config.selected_outputs,
                                          TsHours(lastSim.x))
        /\ lastSim.vec # NaNs(Len(config.selected_outputs))

C13_Witness ==
    /\ lastOp = "sim_func"
    /\ lastSim.x = UnmappedPoint(2)
    /\ ~lastSim.raised
    /\ config.inputs["tshours"] = 2
    /\ lastSim.vec = <<Num(24), Num(4)>>

\* The modules a module is built from (from_existing), which must run before it.
Upstream(m) == IF m = "system_model" THEN {} ELSE {"system_model"}

\* The position of the step <<kind, name>> in a log (0 when absent).
StepAt(log, kind, name) ==
    IF \E i \in 1..Len(log) : log[i] = <<kind, name>>
    THEN CHOOSE i \in 1..Len(log) : log[i] = <<kind, name>>
    ELSE 0

\* C14: an evaluation that completes first handles every variable of the point, then
\* executes every module of the list built at construction exactly once in list order
\* (system model first, financial model last, every module after its upstream
\* modules), and reads the outputs only after the last module has executed.
C14_ModuleOrder ==
    (lastSim.x # <<>> /\ ~Struck(lastSim.x)) =>
        LET log == config.log
            n == Len(lastSim.x)
            k == Len(ModulesOf(config.preset))
        IN /\ Len(log) = n + k + 1
           /\ \A i \in 1..n : log[i][1] \in {"set", "skip"} /\ log[i][2] = lastSim.x[i][1]
           /\ \A j \in 1..k : log[n + j] = <<"execute", ModulesOf(config.preset)[j]>>
           /\ log[n + k + 1] = <<"collect", "outputs">>
           /\ \A j \in 1..k : \A u \in Upstream(ModulesOf(config.preset)[j]) :
                 /\ StepAt(log, "execute", u) > 0
                 /\ StepAt(log, "execute", u) < n + j
           /\ (config.preset = "Commercial owner" =>
                 /\ log[n + 1] = <<"execute", "system_model">>
                 /\ log[n + k] = <<"execute", "financial_model">>)

C14_Witness ==
    /\ lastOp = "optimize_step"
    /\ lastSim.x = Point(2)
    /\ ~lastSim.raised
    /\ Len(config.log) = 6
    /\ config.log[6] = <<"collect", "outputs">>

\* The objective lists of the setup runs: those of Init, and one that names a
\* series-valued output field directly (output_name_map.get(key, key) passes a name
\* without a translation entry through).
SetupOutputsChoices ==
    SelectedOutputsChoices \cup { <<"cf_discounted_savings", "LCOE">> }

\* The setup: ConfigSelection built for any preset name, then evaluated directly.
InitSetup ==
    /\ Construct(SetupOutputsChoices, FailureChoices, PresetChoices, BOOLEAN)
    /\ inFlight = NoFlight

NextSetup == \E x \in DirectPoints : direct_sim_func(x)

SpecSetup == InitSetup /\ [][NextSetup]_vars

\* A synthetic oracle with a known finite candidate set: tshours t gives the
\* objective vector SyntheticVector(t).
SyntheticVector(t) ==
    CASE t = 0 -> <<Num(1), Num(5)>>
      [] t = 1 -> <<Num(2), Num(3)>>
      [] t = 2 -> <<Num(3), Num(3)>>
      [] OTHER -> <<Num(4), Num(1)>>

SyntheticDesigns == << [name |-> "tshours", lb |-> 0, ub |-> 3, des_type |-> "integer"] >>

SyntheticArchives ==
    UNION { [1..n -> { [x |-> Point(t), out |-> SyntheticVector(t)] : t \in 0..3 }] :
            n \in 0..MaxArchive }

\* An engine for two objectives whose archive holds evaluations of the synthetic
\* oracle.
InitFront ==
    /\ inFlight = NoFlight
    /\ impl = "sammoo"
    /\ simFail = "none"
    /\ objective_names = <<"LCOE", "Payback">>
    /\ config = ConfigSelection(impl, "Commercial owner", objective_names, TRUE)
    /\ moop0 = addAcquisitions(
                   _add_objectives(
                       addSimulation(addDesigns(NewMOOP, SyntheticDesigns), objective_names,
                                     SearchBudget),
                       objective_names),
                   InitialAcquisitions)
    /\ \E arch \in SyntheticArchives :
          my_moop = [moop0 EXCEPT !.archive = arch, !.iter = 1]
    /\ auto_switch = FALSE
    /\ epsilon \in EpsilonChoices
    /\ num_steps = 0
    /\ switched_to_batch = FALSE
    /\ prev_objectives = <<>>
    /\ lastOp = "solve_all"
    /\ lastResult = "ok"
    /\ lastSim = NoSim
    /\ calls = [NoCalls EXCEPT !.fresh = "used"]
    /\ ref = NoRef

NextFront == get_results \/ export_results

SpecFront == InitFront /\ [][NextFront]_vars

\* P is at least as good as Q on every objective and strictly better on one.
DominatesByDefinition(p, q, m) ==
    /\ \A i \in 1..m : p.out[i].k = "num" /\ q.out[i].k = "num" /\ p.out[i].v <= q.out[i].v
    /\ \E i \in 1..m : p.out[i].v < q.out[i].v

\* The objective vectors of a sequence of records.
Outs(recs) == { recs[i].out : i \in 1..Len(recs) }

\* C15: get_results returns exactly the records of the archive that no record
\* dominates; for the evaluated vectors {(1,5),(2,3),(3,3),(4,1)} the front is
\* {(1,5),(2,3),(4,1)}.
C15_ParetoFront ==
    /\ \A r \in Range(my_moop.archive) :
          (r \in Range(getPF(my_moop))) <=>
              ~\E q \in Range(my_moop.archive) :
                  DominatesByDefinition(q, r, Len(objective_names))
    /\ Range(getPF(my_moop)) \subseteq Range(my_moop.archive)
    /\ (Outs(my_moop.archive) = { SyntheticVector(t) : t \in 0..3 } =>
          Outs(getPF(my_moop)) = { SyntheticVector(0), SyntheticVector(1), SyntheticVector(3) })

C15_Witness ==
    /\ lastOp = "get_results"
    /\ Outs(my_moop.archive) = { SyntheticVector(t) : t \in 0..3 }
    /\ Outs(getPF(my_moop)) = { <<Num(1), Num(5)>>, <<Num(2), Num(3)>>, <<Num(4), Num(1)>> }

\* A record whose objective vector holds NaN.
HasNaN(rec) == \E i \in 1..Len(rec.out) : rec.out[i] = NaN

\* C16: no record with a NaN objective is a row of the front get_results returns, and
\* such a record removes no valid record from it: a valid record that no valid
\* record dominates is in the front.
C16_NaNOutOfFront ==
    /\ \A r \in Range(getPF(my_moop)) : ~HasNaN(r)
    /\ \A r \in Range(my_moop.archive) :
          (/\ ~HasNaN(r)
           /\ ~\E q \in Range(my_moop.archive) :
                 ~HasNaN(q) /\ DominatesByDefinition(q, r, Len(objective_names)))
          => r \in Range(getPF(my_moop))

\* C17: set_debug_outputs appends: the new selected_outputs starts with the previous
\* names in their previous order, followed by the additional names not yet present,
\* each name once, so every previous name keeps its position in the vector that
\* sim_func returns.
C17_DebugOutputsAppend ==
    [][lastOp' = "set_debug_outputs" =>
        /\ IsPrefix(config.selected_outputs, config'.selected_outputs)
        /\ Range(config.selected_outputs) \subseteq Range(config'.selected_outputs)
        /\ Len(config'.selected_outputs) = Cardinality(Range(config'.selected_outputs))]_vars

\* C19: a preset name other than the two known ones makes the construction of
\* ConfigSelection fail, for both values of use_default; every instance handed to
\* the caller has its module list, so no evaluation is the first to fail for it.
C19_UnknownPresetFatal ==
    /\ (config.preset \notin KnownPresets => ~config.constructed)
    /\ (config.constructed => config.modules # <<>>)
    /\ ((lastOp = "sim_func" /\ config.preset \notin KnownPresets) => ~lastSim.raised)

\* A design point that assigns every registered design variable, in registration
\* order, a value inside its bounds (integral when the variable is integer-typed).
InBounds(x) ==
    /\ Len(x) = Len(DesVarDict)
    /\ \A j \in 1..Len(DesVarDict) :
          /\ x[j][1] = DesVarDict[j].name
          /\ DesVarDict[j].lb <= x[j][2]
          /\ x[j][2] <= DesVarDict[j].ub
          /\ (DesVarDict[j].des_type = "integer" => x[j][2] \in Int)

C22_SwitchAfterHonoured == switched_to_batch => num_steps >= SwitchAfter

\* C24: the convergence signal a step records is the arithmetic mean of the
\* per-objective column means of the current front; only the objective columns enter
\* it (the design-variable values of the front's points do not).
C24_ObjectiveMeanOnly ==
    (lastOp = "optimize_step" /\ lastResult \in {"ok", "TypeError"})
        => prev_objectives[Len(prev_objectives)]
               = MeanOfMeans(ColumnMeans(getPF(my_moop), 0, my_moop.sim_m))

\* C26: a requested objective whose output field is a series or vector is reduced
\* to one element, so every entry of a returned vector is a scalar (the vector stays
\* flat).
C26_VectorsReduced ==
    (lastOp = "sim_func" /\ ~lastSim.raised)
        => \A i \in 1..Len(lastSim.vec) : lastSim.vec[i].k # "vec"

\* C28: a failed auto-switch is not rolled back.  The step whose batch solve raises
\* leaves the engine in batch mode with num_steps incremented, the step's mean
\* appended to the history and batch_size more acquisitions registered; every
\* optimize_step made in batch mode is rejected and changes nothing, and only reset()
\* leaves batch mode.
C28_NoRollback ==
    [][ /\ (lastOp' = "optimize_step" /\ lastResult' = "TypeError")
            => /\ ~switched_to_batch /\ switched_to_batch'
               /\ num_steps' = num_steps + 1
               /\ Len(prev_objectives') = Len(prev_objectives) + 1
               /\ my_moop'.acqs = my_moop.acqs + BatchSize
        /\ (switched_to_batch /\ lastOp' = "optimize_step")
            => /\ lastResult' = "rejected"
               /\ UNCHANGED <<my_moop, num_steps, switched_to_batch, prev_objectives>>
        /\ (switched_to_batch /\ ~switched_to_batch') => lastOp' = "reset"
      ]_vars

\* An optimize_step rejected after the failed switch: the counter, the history and
\* the acquisitions are those the failing step left.
C28_Witness ==
    /\ lastOp = "optimize_step" /\ lastResult = "rejected"
    /\ switched_to_batch
    /\ num_steps = 2 /\ Len(prev_objectives) = 2
    /\ my_moop.acqs = InitialAcquisitions + BatchSize

\* C29: len(prev_objectives) <= num_steps in every state, with equality after every
\* optimize_step that returned normally; switched_to_batch is true only if auto_switch
\* is true and the history holds at least two values.
C29_HistoryLength ==
    /\ Len(prev_objectives) <= num_steps
    /\ (lastOp = "optimize_step" /\ lastResult = "ok") => Len(prev_objectives) = num_steps
    /\ switched_to_batch => (auto_switch /\ Len(prev_objectives) >= 2)

\* The engine next to an oracle whose debug outputs are switched on: steps, resets
\* and set_debug_outputs in any order.
NextDebug ==
    \/ \E additional_outputs \in DebugOutputs : set_debug_outputs(additional_outputs)
    \/ reset
    \/ optimize_step
    \/ get_results

SpecDebug == Init /\ [][NextDebug]_vars

\* C30: set_debug_outputs rebinds the oracle's selected_outputs and leaves the
\* engine's objective_names and its registered problem as they were, so a later
\* reset() registers exactly the objectives and the output arity m of construction.
C30_DebugLeavesProblem ==
    [][ /\ lastOp' = "set_debug_outputs"
            => /\ objective_names' = objective_names
               /\ my_moop' = my_moop
               /\ \E additional_outputs \in DebugOutputs :
                     Range(config'.selected_outputs)
                         = Range(config.selected_outputs) \cup Range(additional_outputs)
        /\ lastOp' = "reset"
            => /\ my_moop'.sim_m = Len(objective_names)
               /\ my_moop'.sim_m = moop0.sim_m
               /\ my_moop'.objectives = moop0.objectives
               /\ [i \in 1..Len(my_moop'.objectives) |-> my_moop'.objectives[i].name]
                      = objective_names
      ]_vars

\* A reset made after set_debug_outputs lengthened the oracle's list.
C30_Witness ==
    /\ lastOp = "reset"
    /\ Len(config.selected_outputs) > Len(objective_names)
    /\ my_moop.sim_m = Len(objective_names)

\* Two callers of sim_func: on an instance each ("own"), on one instance at any time
\* ("shared"), or on one instance one after the other ("sequential", the way the
\* single-threaded engine calls its oracle).
InitRace ==
    /\ Construct(SelectedOutputsChoices, {"none"}, {"Commercial owner"}, {TRUE})
    /\ \E mode \in {"own", "shared", "sequential"} :
          inFlight = [mode |-> mode,
                      inst |-> [k \in Threads |-> config],
                      th |-> [i \in Threads |-> Idle]]

NextRace ==
    \E i \in Threads :
        \/ \E t \in DesVarDict[1].lb .. DesVarDict[1].ub : call_sim_func(i, Point(t))
        \/ set_variables(i)
        \/ execute_modules(i)
        \/ collect_outputs(i)

SpecRace == InitRace /\ [][NextRace]_vars

\* Caller i has an evaluation that returned; the outputs that belong to a point.
HasReturned(i) == inFlight.th[i].pc = "idle" /\ inFlight.th[i].x # <<>>
OwnOutputs(x) == _collect_outputs(config.modules, config.selected_outputs, TsHours(x))

\* C25: with one oracle instance per evaluation, or with evaluations made one after
\* the other on one instance (at most one in flight, as under the engine), the
\* modules execute with the values of the caller's own point and every evaluation
\* returns the outputs of its own point; only interleaved evaluations on a shared
\* instance can do otherwise.
C25_NonReentrant ==
    /\ inFlight.mode \in {"own", "sequential"}
        => \A i \in Threads :
              /\ inFlight.th[i].pc = "ran"
                  => inFlight.inst[InstanceOf(inFlight.mode, i)].ran
                         = TsHours(inFlight.th[i].x)
              /\ HasReturned(i) => inFlight.th[i].vec = OwnOutputs(inFlight.th[i].x)
    /\ inFlight.mode = "sequential"
        => Cardinality({ i \in Threads : inFlight.th[i].pc # "idle" }) <= 1

\* The race: on a shared instance an evaluation has returned the outputs of the
\* other caller's point, which differ from those of its own.
C25_Witness ==
    /\ inFlight.mode = "shared"
    /\ \E i, j \in Threads :
          /\ i # j
          /\ HasReturned(i)
          /\ inFlight.th[j].x # <<>>
          /\ inFlight.th[i].vec # OwnOutputs(inFlight.th[i].x)
          /\ inFlight.th[i].vec = OwnOutputs(inFlight.th[j].x)

\* The oracle's inputs: set_input, set_inputs and a load profile applied to it.
InitInputs ==
    /\ Construct({ <<"LCOE">> }, {"none"}, KnownPresets, {TRUE})
    /\ inFlight = NoFlight

NextInputs ==
    \/ \E key \in InputKeys, value \in InputValues : set_input(key, value)
    \/ \E inputs_dict \in InputDicts : set_inputs(inputs_dict)
    \/ \E year \in Years, kg \in MonthlyKgTotals : apply_to_config(year, kg)

SpecInputs == InitInputs /\ [][NextInputs]_vars

\* C23: get_hourly_kw_profile raises ValueError whenever the hourly series does not
\* have exactly 8760 entries, and apply_to_config then fails before any input is
\* set: neither timestep_load_abs nor q_pb_design changes.
C23_ProfileLengthChecked ==
    [][ (/\ lastOp' = "apply_to_config"
         /\ HourlySeriesLength(calls'.arg[1][2].n) # HoursExpected)
            => /\ lastResult' = "ValueError"
               /\ config'.assigned = config.assigned
      ]_vars

\* A profile of a leap year was applied to an oracle whose two inputs were never set.
C23_Witness ==
    /\ lastOp = "apply_to_config"
    /\ lastResult = "ValueError"
    /\ IsLeapYear(calls.arg[1][2].n)
    /\ config.assigned["system_model"]["timestep_load_abs"] = Rat(0, 1)
    /\ config.assigned["system_model"]["q_pb_design"] = Rat(0, 1)

\* The first module of the list that accepts key ("none" when no module does).
FirstAccepting(ms, key) ==
    IF \E i \in 1..Len(ms) : AcceptsInput(ms[i], key)
    THEN ms[CHOOSE i \in 1..Len(ms) :
                /\ AcceptsInput(ms[i], key)
                /\ \A j \in 1..(i - 1) : ~AcceptsInput(ms[j], key)]
    ELSE "none"

\* C27: set_input gives the value to the first module, in list order, that accepts
\* the key and touches no other module; when none accepts it nothing changes, a
\* warning is printed and no exception is raised.  set_inputs does this for every
\* entry, so an unrecognized key does not keep the other entries from being set.
C27_FirstAcceptingModule ==
    [][ /\ lastOp' = "set_input"
            => /\ lastResult' = "ok"
               /\ IF FirstAccepting(config.modules, calls'.arg[1][1]) = "none"
                  THEN /\ config'.assigned = config.assigned
                       /\ <<"WARN", calls'.arg[1][1]>> \in Range(config'.printed)
                  ELSE /\ config'.assigned =
                              [config.assigned EXCEPT
                                  ![FirstAccepting(config.modules, calls'.arg[1][1])]
                                   [calls'.arg[1][1]] = calls'.arg[1][2]]
                       /\ <<"WARN", calls'.arg[1][1]>> \notin Range(config'.printed)
        /\ lastOp' = "set_inputs"
            => /\ lastResult' = "ok"
               /\ \A i \in 1..Len(calls'.arg) :
                     IF FirstAccepting(config.modules, calls'.arg[i][1]) = "none"
                     THEN <<"WARN", calls'.arg[i][1]>> \in Range(config'.printed)
                     ELSE config'.assigned[FirstAccepting(config.modules, calls'.arg[i][1])]
                                          [calls'.arg[i][1]] = calls'.arg[i][2]
               /\ \A m \in ModuleNames, key \in InputKeys :
                     (\A i \in 1..Len(calls'.arg) :
                          \/ calls'.arg[i][1] # key
                          \/ FirstAccepting(config.modules, key) # m)
                         => config'.assigned[m][key] = config.assigned[m][key]
      ]_vars

\* set_inputs with an unrecognized key first: the warning is printed, the second
\* entry is set on the first module that accepts it and on no later one.
C27_Witness ==
    /\ lastOp = "set_inputs"
    /\ calls.arg[1][1] = "no_such_input"
    /\ calls.arg[2][1] = "analysis_period"
    /\ <<"WARN", "no_such_input">> \in Range(config.printed)
    /\ config.assigned["utility_model"]["analysis_period"] = Rat(2, 1)
    /\ config.assigned["thermalrate_model"]["analysis_period"] = Rat(0, 1)
    /\ config.assigned["financial_model"]["analysis_period"] = Rat(0, 1)

====
